---- MODULE Spec2Model ----
(* Model of annotate_snps.py (MIDAS): the coordinate-sorted merge of       *)
(* variant sites with gene intervals, strand-aware codon extraction and    *)
(* codon-degeneracy classification.                                        *)
(*                                                                         *)
(* Nucleotides are one-character strings, sequences are tuples of them.    *)
(* Accessions (contig ids) are natural numbers standing for the rank of    *)
(* the accession string in lexicographic order, the only thing the code    *)
(* uses of them besides equality and dictionary lookup.                    *)
(* The program is Python 2 (dict.values() is a list, line 114).            *)
EXTENDS Integers, Sequences, FiniteSets, TLC

VARIABLES genome, genes, sites, max_sites, main_gene_index,
          i, pc, site, gene_index, iters, call, out, log

vars == <<genome, genes, sites, max_sites, main_gene_index,
          i, pc, site, gene_index, iters, call, out, log>>

(***************************************************************************)
(* Bounds of the model                                                     *)
(***************************************************************************)
MaxGenes == 3
MaxSites == 2

(***************************************************************************)
(* Pure helpers of the source                                              *)
(***************************************************************************)

\* Rank of the hard-coded accession 'accn|NZ_DS499510' (lines 46 and 53)
\* among the accessions of the model.
SentinelAccn == 2

Min(a, b) == IF a < b THEN a ELSE b

\* Python slice x[lo:hi] for 0 <= lo: indices lo .. hi-1, truncated at len(x).
Slice(x, lo, hi) == SubSeq(x, lo + 1, Min(hi, Len(x)))

\* x[::-1]
Reversed(x) == [k \in 1..Len(x) |-> x[Len(x) + 1 - k]]

\* str.upper() on one character: letters of the model's alphabet that have an
\* upper-case form are mapped to it, all others are left alone.
upper_char(c) ==
    CASE c = "a" -> "A"
      [] c = "c" -> "C"
      [] c = "g" -> "G"
      [] c = "t" -> "T"
      [] c = "n" -> "N"
      [] c = "x" -> "X"
      [] OTHER -> c

upper(x) == [k \in 1..Len(x) |-> upper_char(x[k])]

\* int(site['ref_pos']) on a string of decimal digits (line 127); the string is
\* a tuple of digits 0..9.
RECURSIVE int(_)
int(s) == IF Len(s) = 0 THEN 0 ELSE 10 * int(SubSeq(s, 1, Len(s) - 1)) + s[Len(s)]

\* d of rev_comp (line 65)
rev_comp_d == ("A" :> "T") @@ ("T" :> "A") @@ ("G" :> "C") @@ ("C" :> "G") @@ ("N" :> "N")

\* rev_comp (lines 63-66); ok = FALSE is the KeyError of d[i].
rev_comp(seq) ==
    IF \E k \in 1..Len(seq) : seq[k] \notin DOMAIN rev_comp_d
    THEN [ok |-> FALSE, seq |-> <<>>]
    ELSE [ok |-> TRUE, seq |-> [k \in 1..Len(seq) |-> rev_comp_d[Reversed(seq)[k]]]]

\* get_gene_seq (lines 68-74); ok = FALSE is a KeyError of genome[...] or of
\* rev_comp.
get_gene_seq(gene, gnm) ==
    IF gene.accession \notin DOMAIN gnm
    THEN [ok |-> FALSE, seq |-> <<>>]
    ELSE LET seq == upper(Slice(gnm[gene.accession], gene.start - 1, gene.end))
         IN  IF gene.strand = "-" THEN rev_comp(seq) ELSE [ok |-> TRUE, seq |-> seq]

\* codontable of translate (lines 78-95)
codontable ==
    (<<"A","T","A">> :> "I") @@ (<<"A","T","C">> :> "I") @@ (<<"A","T","T">> :> "I") @@ (<<"A","T","G">> :> "M")
 @@ (<<"A","C","A">> :> "T") @@ (<<"A","C","C">> :> "T") @@ (<<"A","C","G">> :> "T") @@ (<<"A","C","T">> :> "T")
 @@ (<<"A","A","C">> :> "N") @@ (<<"A","A","T">> :> "N") @@ (<<"A","A","A">> :> "K") @@ (<<"A","A","G">> :> "K")
 @@ (<<"A","G","C">> :> "S") @@ (<<"A","G","T">> :> "S") @@ (<<"A","G","A">> :> "R") @@ (<<"A","G","G">> :> "R")
 @@ (<<"C","T","A">> :> "L") @@ (<<"C","T","C">> :> "L") @@ (<<"C","T","G">> :> "L") @@ (<<"C","T","T">> :> "L")
 @@ (<<"C","C","A">> :> "P") @@ (<<"C","C","C">> :> "P") @@ (<<"C","C","G">> :> "P") @@ (<<"C","C","T">> :> "P")
 @@ (<<"C","A","C">> :> "H") @@ (<<"C","A","T">> :> "H") @@ (<<"C","A","A">> :> "Q") @@ (<<"C","A","G">> :> "Q")
 @@ (<<"C","G","A">> :> "R") @@ (<<"C","G","C">> :> "R") @@ (<<"C","G","G">> :> "R") @@ (<<"C","G","T">> :> "R")
 @@ (<<"G","T","A">> :> "V") @@ (<<"G","T","C">> :> "V") @@ (<<"G","T","G">> :> "V") @@ (<<"G","T","T">> :> "V")
 @@ (<<"G","C","A">> :> "A") @@ (<<"G","C","C">> :> "A") @@ (<<"G","C","G">> :> "A") @@ (<<"G","C","T">> :> "A")
 @@ (<<"G","A","C">> :> "D") @@ (<<"G","A","T">> :> "D") @@ (<<"G","A","A">> :> "E") @@ (<<"G","A","G">> :> "E")
 @@ (<<"G","G","A">> :> "G") @@ (<<"G","G","C">> :> "G") @@ (<<"G","G","G">> :> "G") @@ (<<"G","G","T">> :> "G")
 @@ (<<"T","C","A">> :> "S") @@ (<<"T","C","C">> :> "S") @@ (<<"T","C","G">> :> "S") @@ (<<"T","C","T">> :> "S")
 @@ (<<"T","T","C">> :> "F") @@ (<<"T","T","T">> :> "F") @@ (<<"T","T","A">> :> "L") @@ (<<"T","T","G">> :> "L")
 @@ (<<"T","A","C">> :> "Y") @@ (<<"T","A","T">> :> "Y") @@ (<<"T","A","A">> :> "_") @@ (<<"T","A","G">> :> "_")
 @@ (<<"T","G","C">> :> "C") @@ (<<"T","G","T">> :> "C") @@ (<<"T","G","A">> :> "_") @@ (<<"T","G","G">> :> "W")

\* translate (lines 76-96); ok = FALSE is the KeyError of codontable[...].
translate(codon) ==
    IF codon \in DOMAIN codontable
    THEN [ok |-> TRUE, aa |-> codontable[codon]]
    ELSE [ok |-> FALSE, aa |-> "?"]

\* index_replace writing one position further (cyclically) than asked.
index_replace_shifted(x, y, idx) == [x EXCEPT ![((idx + 1) % Len(x)) + 1] = y]

\* index_replace (lines 98-102), idx is 0-based.
index_replace(x, y, idx) == [x EXCEPT ![idx + 1] = y]

\* The alleles classify_site iterates over (line 110) and write_site writes.
Alleles == {"A", "T", "C", "G"}

\* str(n) + 'D' (line 114)
str_D(n) ==
    CASE n = 0 -> "0D"
      [] n = 1 -> "1D"
      [] n = 2 -> "2D"
      [] n = 3 -> "3D"
      [] n = 4 -> "4D"

\* A classifier that leaves the codon's own base unclassified.
snp_type_skip_own(ref_codon, alt_allele, codon_pos) ==
    IF ref_codon[codon_pos + 1] = alt_allele THEN "NA"
    ELSE IF translate(index_replace(ref_codon, alt_allele, codon_pos)).aa
              = translate(ref_codon).aa
    THEN "SYN" ELSE "NS"

\* 'SYN' if alt_aa == ref_aa else 'NS' for one alt_allele (lines 111-113).
\* Only used on a ref_codon that translate accepts.
snp_type(ref_codon, alt_allele, codon_pos) ==
    IF translate(index_replace(ref_codon, alt_allele, codon_pos)).aa = translate(ref_codon).aa
    THEN "SYN" ELSE "NS"

\* classify_site (lines 104-114); ok = FALSE is the KeyError of translate.
classify_site(s, ref_codon, codon_pos) ==
    IF \E k \in 1..Len(ref_codon) : ref_codon[k] = "N"
    THEN [ok |-> TRUE, site |-> [s EXCEPT !.site_type = "N"]]
    ELSE IF ~translate(ref_codon).ok
    THEN [ok |-> FALSE, site |-> s]
    ELSE LET types == [a \in Alleles |-> snp_type(ref_codon, a, codon_pos)]
             n     == Cardinality({a \in Alleles : types[a] = "SYN"})
         IN  [ok |-> TRUE,
              site |-> [s EXCEPT !.snp_types = types, !.site_type = str_D(n)]]

\* init_site (lines 125-130)
init_site(s) ==
    [ref_id     |-> s.ref_id,
     ref_pos    |-> int(s.ref_pos),
     ref_allele |-> s.ref_allele,
     gene_id    |-> "NA",
     site_type  |-> "NC",
     snp_types  |-> [a \in Alleles |-> "NA"]]

\* annotate_site without the test for a missing reference allele.
ref_allele_never_missing(s) == FALSE

\* Step 0 of annotate_site (line 135)
ref_allele_missing(s) == s.ref_allele = "N"

\* Step 2 of annotate_site (lines 145-146)
is_upstream(s, gene) ==
    \/ s.ref_id < gene.accession
    \/ (s.ref_id = gene.accession /\ s.ref_pos < gene.start)

\* A downstream test that also skips the gene at the gene's last base.
is_downstream_at_end(s, gene) ==
    \/ s.ref_id > gene.accession
    \/ (s.ref_id = gene.accession /\ s.ref_pos >= gene.end)

\* Step 3 of annotate_site (lines 149-150)
is_downstream(s, gene) ==
    \/ s.ref_id > gene.accession
    \/ (s.ref_id = gene.accession /\ s.ref_pos > gene.end)

\* A cursor that skips a gene when it advances.
advance_by_two(gi) == gi + 2

\* gene_index = gene_index + 1 (line 151)
advance(gi) == gi + 1

\* gene['gene_id'].split('|')[-1] (line 155); a gene_id is the tuple of its
\* '|'-separated parts.
split_last(gid) == gid[Len(gid)]

\* A position in the gene that ignores the strand.
gene_pos_forward(s, gene) == s.ref_pos - gene.start

\* position of snp in gene (line 161)
gene_pos_of(s, gene) ==
    IF gene.strand = "+" THEN s.ref_pos - gene.start ELSE gene.end - s.ref_pos

\* fetch_ref_codon (lines 159-165); ok = FALSE is a KeyError of get_gene_seq.
fetch_ref_codon(s, gene, gnm) ==
    LET gene_pos  == gene_pos_of(s, gene)
        codon_pos == gene_pos % 3
        gs        == get_gene_seq(gene, gnm)
    IN  IF ~gs.ok
        THEN [ok |-> FALSE, ref_codon |-> <<>>, codon_pos |-> codon_pos]
        ELSE [ok |-> TRUE,
              ref_codon |-> Slice(gs.seq, gene_pos - codon_pos, gene_pos - codon_pos + 3),
              codon_pos |-> codon_pos]

\* The row write_site writes (lines 167-174)
write_site(s) ==
    [ref_id |-> s.ref_id, ref_pos |-> s.ref_pos, ref_allele |-> s.ref_allele,
     gene_id |-> s.gene_id, site_type |-> s.site_type,
     snp_A |-> s.snp_types["A"], snp_T |-> s.snp_types["T"],
     snp_C |-> s.snp_types["C"], snp_G |-> s.snp_types["G"]]

\* check_snps (lines 44-49): last_snp is never reassigned, so every ref_id is
\* compared with the hard-coded accession.  TRUE = returns, FALSE = sys.exit.
check_snps(snps) ==
    ~\E k \in 1..Len(snps) : snps[k].ref_id < SentinelAccn

\* check_genes (lines 51-61), with the contig map for the name `genome` of
\* line 55.  TRUE = returns, FALSE = sys.exit.
RECURSIVE check_genes_from(_, _, _, _)
check_genes_from(gs, gnm, k, last_accession) ==
    IF k > Len(gs) THEN TRUE
    ELSE IF gs[k].accession \notin DOMAIN gnm THEN FALSE
    ELSE IF (gs[k].end - gs[k].start + 1) % 3 # 0 THEN FALSE
    ELSE IF gs[k].accession < last_accession THEN FALSE
    ELSE check_genes_from(gs, gnm, k + 1, gs[k].accession)

check_genes(gs, gnm) == check_genes_from(gs, gnm, 1, SentinelAccn)


(***************************************************************************)
(* main (lines 183-194) as a state machine                                 *)
(*   pc = "next"  : at the head of the for loop of line 189                *)
(*   pc = "loop"  : inside annotate_site, at the head of while True        *)
(*   pc = "write" : annotate_site has returned, write_site is next         *)
(*   pc = "done"  : the loop has ended and the output file is closed       *)
(*   pc = "fatal" : an uncaught KeyError has ended the process             *)
(* call, iters and log record what each call of annotate_site did; the     *)
(* program does not read them.                                             *)
(***************************************************************************)

NoSite ==
    [ref_id |-> 0, ref_pos |-> 0, ref_allele |-> "N", gene_id |-> "NA",
     site_type |-> "NC", snp_types |-> [a \in Alleles |-> "NA"]]

NoCall == [start |-> 0, in_gene |-> FALSE, ref_codon |-> <<>>, codon_pos |-> 0]

\* State at the entry of the for loop (lines 184-188), for given inputs; c is
\* the value of main's gene_index, which line 188 sets to 0.
InitRun(gnm, gs, ss, ms, c) ==
    /\ genome = gnm
    /\ genes = gs
    /\ sites = ss
    /\ max_sites = ms
    /\ main_gene_index = c
    /\ i = 0
    /\ pc = "next"
    /\ site = NoSite
    /\ gene_index = 0
    /\ iters = 0
    /\ call = NoCall
    /\ out = <<>>
    /\ log = <<>>

\* Lines 189-191 and 135-137: take the next site, init_site, enter
\* annotate_site with main's gene_index, return at once on ref_allele 'N'.
StartSite ==
    /\ pc = "next"
    /\ i < Len(sites)
    /\ LET s == init_site(sites[i + 1])
       IN  IF ref_allele_missing(s)
           THEN /\ site' = [s EXCEPT !.site_type = "N"]
                /\ pc' = "write"
           ELSE /\ site' = s
                /\ pc' = "loop"
    /\ gene_index' = main_gene_index
    /\ iters' = 0
    /\ call' = [NoCall EXCEPT !.start = main_gene_index]
    /\ UNCHANGED <<genome, genes, sites, max_sites, main_gene_index, i, out, log>>

\* One iteration of the while loop of annotate_site (lines 138-157): the
\* values of its locals after the iteration and where control goes.
while_body(s, gi, cl, gs, gnm) ==
    IF ~(gi < Len(gs))
    THEN [pc |-> "write", site |-> s, gene_index |-> gi, call |-> cl]
    ELSE LET gene == gs[gi + 1]
         IN  IF is_upstream(s, gene)
             THEN [pc |-> "write", site |-> s, gene_index |-> gi, call |-> cl]
             ELSE IF is_downstream(s, gene)
             THEN [pc |-> "loop", site |-> s, gene_index |-> advance(gi), call |-> cl]
             ELSE LET r  == fetch_ref_codon(s, gene, gnm)
                      s1 == [s EXCEPT !.gene_id = split_last(gene.gene_id)]
                      c  == classify_site(s1, r.ref_codon, r.codon_pos)
                  IN  IF ~r.ok
                      THEN [pc |-> "fatal", site |-> s, gene_index |-> gi, call |-> cl]
                      ELSE [pc |-> IF c.ok THEN "write" ELSE "fatal",
                            site |-> c.site,
                            gene_index |-> gi,
                            call |-> [cl EXCEPT !.in_gene = TRUE,
                                                !.ref_codon = r.ref_codon,
                                                !.codon_pos = r.codon_pos]]

LoopStep ==
    /\ pc = "loop"
    /\ \E r \in {while_body(site, gene_index, call, genes, genome)} :
           /\ pc' = r.pc
           /\ site' = r.site
           /\ gene_index' = r.gene_index
           /\ call' = r.call
    /\ iters' = iters + 1
    /\ UNCHANGED <<genome, genes, sites, max_sites, main_gene_index, i, out, log>>

\* Lines 192-193: write the row, then the max_sites test with the 0-based i
\* of enumerate; break leads to snpinfo.close() (line 194).
WriteSite ==
    /\ pc = "write"
    /\ out' = Append(out, write_site(site))
    /\ log' = Append(log, [start |-> call.start, end |-> gene_index, iters |-> iters,
                           in_gene |-> call.in_gene, ref_codon |-> call.ref_codon,
                           codon_pos |-> call.codon_pos])
    /\ IF max_sites # 0 /\ i >= max_sites
       THEN /\ pc' = "done"
            /\ UNCHANGED i
       ELSE /\ pc' = "next"
            /\ i' = i + 1
    /\ UNCHANGED <<genome, genes, sites, max_sites, main_gene_index,
                   site, gene_index, iters, call>>

\* The site stream is exhausted: the for loop ends, line 194.
Finish ==
    /\ pc = "next"
    /\ i = Len(sites)
    /\ pc' = "done"
    /\ UNCHANGED <<genome, genes, sites, max_sites, main_gene_index,
                   i, site, gene_index, iters, call, out, log>>

Next == StartSite \/ LoopStep \/ WriteSite \/ Finish

(***************************************************************************)
(* Inputs                                                                  *)
(***************************************************************************)

SeqsUpTo(S, n) == UNION {[1..k -> S] : k \in 0..n}

Strands == {"+", "-"}

GeneNames ==
    <<<<"g11", "g12", "g13", "g14", "g15", "g16">>,
      <<"g21", "g22", "g23", "g24", "g25", "g26">>,
      <<"g31", "g32", "g33", "g34", "g35", "g36">>,
      <<"g41", "g42", "g43", "g44", "g45", "g46">>>>

\* A gene record as read_genes returns it (lines 33-40); gene ids of the first
\* accession carry a '|'-separated prefix.
Gene(acc, s, e, strand) ==
    [accession |-> acc, start |-> s, end |-> e, strand |-> strand,
     gene_id |-> IF acc = 1 THEN <<"fig", GeneNames[acc][s]>> ELSE <<GeneNames[acc][s]>>]

\* A site record as parse_file yields it: ref_pos is still a string of digits.
Site(acc, p, allele) == [ref_id |-> acc, ref_pos |-> <<p>>, ref_allele |-> allele]

GenesSorted(gs) ==
    \A k \in 1..Len(gs) - 1 :
        \/ gs[k].accession < gs[k + 1].accession
        \/ (gs[k].accession = gs[k + 1].accession /\ gs[k].start <= gs[k + 1].start)

GenesDisjoint(gs) ==
    \A k, l \in 1..Len(gs) :
        (k < l /\ gs[k].accession = gs[l].accession)
            => (gs[k].end < gs[l].start \/ gs[l].end < gs[k].start)

SitesSorted(ss) ==
    \A k \in 1..Len(ss) - 1 :
        \/ ss[k].ref_id < ss[k + 1].ref_id
        \/ (ss[k].ref_id = ss[k + 1].ref_id /\ int(ss[k].ref_pos) <= int(ss[k + 1].ref_pos))

\* The reference of the merge runs: a contig of two codons with an unknown
\* base, and a shorter contig with lower-case bases.
RefGenome ==
    (1 :> <<"A", "T", "G", "A", "N", "A">>) @@ (2 :> <<"g", "c", "T", "t">>)

\* Genes of a contig map: every interval of 3 or 6 bases inside its contig, on
\* either strand.
GenesOn(gnm) ==
    UNION {{Gene(acc, s, s + n - 1, st) :
                s \in 1..Len(gnm[acc]), n \in {3, 6}, st \in Strands} :
           acc \in DOMAIN gnm}

GenesWithin(gnm) == {g \in GenesOn(gnm) : g.end <= Len(gnm[g.accession])}

\* Sites of a contig map: every position, with the reference base there.
SitesWithin(gnm) ==
    UNION {{Site(acc, p, upper_char(gnm[acc][p])) : p \in 1..Len(gnm[acc])} :
           acc \in DOMAIN gnm}

SortedGeneLists(gnm) ==
    {gs \in SeqsUpTo(GenesWithin(gnm), MaxGenes) : GenesSorted(gs) /\ GenesDisjoint(gs)}

SortedSiteLists(gnm) ==
    {ss \in SeqsUpTo(SitesWithin(gnm), MaxSites) : SitesSorted(ss)}

\* The gene lists and site streams of the merge runs.
RefGeneLists == SortedGeneLists(RefGenome)

RefSiteLists == SortedSiteLists(RefGenome)

\* Merge runs: sorted, disjoint genes and sorted sites on RefGenome, max_sites
\* not given (0 stands for the falsy values: absent, None, 0).
Init ==
    \E gs \in RefGeneLists, ss \in RefSiteLists :
        InitRun(RefGenome, gs, ss, 0, 0)

Spec == Init /\ [][Next]_vars

\* Capped runs: at most one gene, sorted sites, max_sites absent or given.
MaxSitesOptions == {0, 1, 2}

InitCap ==
    \E gs \in SeqsUpTo(GenesWithin(RefGenome), 1), ss \in RefSiteLists,
       ms \in MaxSitesOptions :
        InitRun(RefGenome, gs, ss, ms, 0)

SpecCap == InitCap /\ [][Next]_vars

\* Single calls of annotate_site: one site, sorted disjoint genes, and any
\* starting cursor inside the gene list or at its end.
InitLoop ==
    \E gs \in RefGeneLists, s \in SitesWithin(RefGenome) :
        \E c \in 0..Len(gs) :
            InitRun(RefGenome, gs, <<s>>, 0, c)

SpecLoop == InitLoop /\ [][Next]_vars

\* Codon runs: one contig of two codons, one of them fixed and the other any
\* three letters of CodonAlphabet (valid, unknown, invalid and lower-case
\* letters); one gene over the first, the second or both codons; one site.
CodonAlphabet == {"A", "C", "G", "T", "N", "X", "a"}

FixedCodon == <<"G", "C", "T">>

CodonContigs ==
    UNION {{c \o FixedCodon, FixedCodon \o c} : c \in [1..3 -> CodonAlphabet]}

InitCodon ==
    \E contig \in CodonContigs :
        \E g \in GenesWithin(1 :> contig), s \in SitesWithin(1 :> contig) :
            /\ g.start \in {1, 4}
            /\ InitRun(1 :> contig, <<g>>, <<s>>, 0, 0)

SpecCodon == InitCodon /\ [][Next]_vars

\* Strand runs: a coding sequence S of two codons over {A,C,G,T}; contig 1
\* holds S and contig 2 its reverse complement on the same interval [2,7]; a
\* '+' gene on contig 1, a '-' gene on contig 2; a site at p on contig 1 and
\* one at the mirrored position on contig 2.
CodingSeqs == {c1 \o c2 : c1, c2 \in DOMAIN codontable}

InitStrand ==
    \E S \in CodingSeqs, p \in 2..7 :
        LET gnm == (1 :> (<<"N">> \o S)) @@ (2 :> (<<"N">> \o rev_comp(S).seq))
        IN  InitRun(gnm,
                    <<Gene(1, 2, 7, "+"), Gene(2, 2, 7, "-")>>,
                    <<Site(1, p, gnm[1][p]), Site(2, 2 + 7 - p, gnm[2][2 + 7 - p])>>,
                    0, 0)

SpecStrand == InitStrand /\ [][Next]_vars

\* Unchecked inputs: contigs 1..3 are in the contig map, accession 4 is not;
\* genes in any order, of length 3 or 4; sites in any order.
PreGenome ==
    (1 :> <<"A", "T", "G", "A", "A", "A">>) @@ (2 :> <<"C", "C", "G", "T", "G", "A">>)
    @@ (3 :> <<"T", "T", "A", "G", "C", "N">>)

PreGenes ==
    {Gene(acc, iv[1], iv[2], st) :
        acc \in 1..4, iv \in {<<1, 3>>, <<4, 6>>, <<2, 5>>}, st \in Strands}

PreSites == {Site(acc, p, PreGenome[acc][p]) : acc \in 1..3, p \in {2, 5}}

InitPre ==
    \E gs \in SeqsUpTo(PreGenes, 2), ss \in SeqsUpTo(PreSites, 2) :
        /\ GenesDisjoint(gs)
        /\ InitRun(PreGenome, gs, ss, 0, 0)

SpecPre == InitPre /\ [][Next]_vars

(***************************************************************************)
(* Properties                                                              *)
(***************************************************************************)

DegeneracyClasses == {"1D", "2D", "3D", "4D"}

\* The snp_X field of a written row, by letter X.
RowSnp(row, a) ==
    CASE a = "A" -> row.snp_A
      [] a = "T" -> row.snp_T
      [] a = "C" -> row.snp_C
      [] a = "G" -> row.snp_G

\* The genes whose interval on the matching accession contains input site k.
Containing(k) ==
    {j \in 1..Len(genes) :
        /\ genes[j].accession = sites[k].ref_id
        /\ genes[j].start <= int(sites[k].ref_pos)
        /\ int(sites[k].ref_pos) <= genes[j].end}

\* C1 (Spec): merge correctness.  For sorted disjoint genes and sorted sites,
\* every written row of a site whose ref_allele is not 'N' has a gene_id iff
\* some gene on its accession contains its position, that gene_id is the id of
\* every (hence the unique) such gene, and a site outside all genes keeps
\* site_type 'NC'.
MergeCorrect ==
    \A k \in 1..Len(out) :
        sites[k].ref_allele # "N" =>
            /\ (out[k].gene_id # "NA") <=> (Containing(k) # {})
            /\ \A j \in Containing(k) : out[k].gene_id = split_last(genes[j].gene_id)
            /\ Cardinality(Containing(k)) <= 1
            /\ (Containing(k) = {}) => (out[k].site_type = "NC")

\* Witness of C1: a finished pass of two sites over three genes in which the
\* first site lies outside all genes and the second inside the last gene.
MergeWitness ==
    /\ pc = "done"
    /\ Len(genes) = 3
    /\ Len(out) = 2
    /\ sites[1].ref_allele # "N"
    /\ out[1].site_type = "NC"
    /\ Containing(1) = {}
    /\ Containing(2) = {3}
    /\ out[2].gene_id = split_last(genes[3].gene_id)

RECURSIVE TotalAdvances(_)
TotalAdvances(k) == IF k = 0 THEN 0 ELSE TotalAdvances(k - 1) + (log[k].end - log[k].start)

\* C2 (Spec): cursor monotonicity.  Within a call the cursor never decreases,
\* each call of annotate_site starts from the cursor value the previous call
\* reached, and the advances summed over all sites are at most G + N.
CursorPersists ==
    /\ \A k \in 1..Len(log) : log[k].start <= log[k].end
    /\ \A k \in 1..Len(log) - 1 : log[k + 1].start = log[k].end
    /\ TotalAdvances(Len(log)) <= Len(genes) + Len(sites)

\* C9 (SpecCap): early-exit cap.  With max_sites = m > 0 and more than m
\* sites in the stream, at most m rows are written.
CapRespected ==
    (max_sites > 0 /\ Len(sites) > max_sites) => Len(out) <= max_sites

\* C10 (SpecLoop): per-site termination.  For every starting cursor, the
\* while loop of annotate_site runs at most (len(genes) - starting cursor) + 1
\* iterations, so it returns (every iteration counts in iters and nothing but
\* an iteration can happen inside the loop); an iteration that does not return
\* adds exactly 1 to gene_index; and an iteration whose site precedes the
\* current gene or lies inside it returns with gene_index unchanged.
PerSiteTermination ==
    /\ [](pc \in {"loop", "write"} => iters <= (Len(genes) - call.start) + 1)
    /\ [][(pc = "loop") => (pc' # "loop" \/ iters' = iters + 1)]_vars
    /\ [][(pc = "loop" /\ pc' = "loop") => gene_index' = gene_index + 1]_vars
    /\ [][(/\ pc = "loop"
           /\ gene_index < Len(genes)
           /\ LET g == genes[gene_index + 1]
              IN  \/ site.ref_id < g.accession
                  \/ (site.ref_id = g.accession /\ site.ref_pos <= g.end))
          => (pc' = "write" /\ gene_index' = gene_index)]_vars

\* Witness of C10: a call that started at cursor 1, skipped two genes and
\* returned at the end of the list after three iterations.
LoopWitness ==
    /\ pc = "write"
    /\ call.start = 1
    /\ Len(genes) = 3
    /\ gene_index = 3
    /\ iters = 3

ValidCodon(c) == Len(c) = 3 /\ \A k \in 1..3 : c[k] \in Alleles

\* C3 (SpecCodon): degeneracy bounds.  Every written row of a site placed in
\* a gene, whose reference codon is three letters of {A,C,G,T}, has a
\* site_type among 1D..4D whose digit is the number of letters with snp_X =
\* 'SYN', and the letter that is the codon's own base at the offset is 'SYN'.
DegeneracyBounds ==
    \A k \in 1..Len(out) :
        (log[k].in_gene /\ ValidCodon(log[k].ref_codon)) =>
            /\ log[k].codon_pos \in 0..2
            /\ out[k].site_type \in DegeneracyClasses
            /\ out[k].site_type
                 = str_D(Cardinality({a \in Alleles : RowSnp(out[k], a) = "SYN"}))
            /\ RowSnp(out[k], log[k].ref_codon[log[k].codon_pos + 1]) = "SYN"

\* Witness of C3: a row of a site at the third offset of a codon on a '-'
\* gene, classified 3D with three 'SYN' letters.
DegeneracyWitness ==
    /\ Len(out) = 1
    /\ genes[1].strand = "-"
    /\ log[1].in_gene
    /\ ValidCodon(log[1].ref_codon)
    /\ log[1].codon_pos = 2
    /\ out[1].site_type = "3D"
    /\ Cardinality({a \in Alleles : RowSnp(out[1], a) = "SYN"}) = 3

AllSnpNA(row) == \A a \in Alleles : RowSnp(row, a) = "NA"

\* C4 as stated (SpecCodon): every row with site_type 'N' or 'NC' has gene_id
\* 'NA' and snp_A, snp_T, snp_C, snp_G all 'NA', also when 'N' comes from an
\* 'N' in the reference codon of a site inside a gene.
SentinelAsStated ==
    \A k \in 1..Len(out) :
        out[k].site_type \in {"N", "NC"} => (out[k].gene_id = "NA" /\ AllSnpNA(out[k]))

\* C4 as amended (SpecCodon): every row with site_type 'N' or 'NC' has all
\* four snp_X 'NA'; its gene_id is 'NA' when site_type is 'NC' or ref_allele
\* is 'N' (whatever gene overlaps the site); when 'N' comes from an 'N' in the
\* reference codon of a site inside a gene, gene_id is that gene's id.
SentinelAmended ==
    \A k \in 1..Len(out) :
        out[k].site_type \in {"N", "NC"} =>
            /\ AllSnpNA(out[k])
            /\ (out[k].site_type = "NC" \/ out[k].ref_allele = "N")
                   => (out[k].gene_id = "NA" /\ ~log[k].in_gene)
            /\ (out[k].site_type = "N" /\ out[k].ref_allele # "N")
                   => /\ log[k].in_gene
                      /\ \E j \in 1..Len(log[k].ref_codon) : log[k].ref_codon[j] = "N"
                      /\ out[k].gene_id = split_last(genes[log[k].end + 1].gene_id)

\* Witness of C4: a row of a site with ref_allele 'N' that lies inside the
\* gene, written with site_type 'N' and gene_id 'NA'.
SentinelWitness ==
    /\ Len(out) = 1
    /\ out[1].ref_allele = "N"
    /\ Containing(1) = {1}
    /\ out[1].site_type = "N"
    /\ out[1].gene_id = "NA"
    /\ AllSnpNA(out[1])

\* C5 as stated (SpecCodon): in every row with a degeneracy class, the snp_X
\* of the letter equal to the site's reference base is 'NA' and the other
\* three are 'SYN' or 'NS'.
RefAlleleNAAsStated ==
    \A k \in 1..Len(out) :
        (out[k].site_type \in DegeneracyClasses /\ out[k].ref_allele \in Alleles) =>
            /\ RowSnp(out[k], out[k].ref_allele) = "NA"
            /\ \A a \in Alleles \ {out[k].ref_allele} : RowSnp(out[k], a) \in {"SYN", "NS"}

\* C5 as amended (SpecCodon): in every row with a degeneracy class, each of
\* the four snp_X is 'SYN' or 'NS', none is 'NA', and the snp_X of the letter
\* equal to the codon's own base at the site's offset is 'SYN'.
RefAlleleSynAmended ==
    \A k \in 1..Len(out) :
        out[k].site_type \in DegeneracyClasses =>
            /\ \A a \in Alleles : RowSnp(out[k], a) \in {"SYN", "NS"}
            /\ log[k].in_gene
            /\ RowSnp(out[k], log[k].ref_codon[log[k].codon_pos + 1]) = "SYN"

\* Witness of C5: a 1D row on a '+' gene whose only 'SYN' letter is the
\* site's own reference base.
RefAlleleWitness ==
    /\ Len(out) = 1
    /\ genes[1].strand = "+"
    /\ out[1].site_type = "1D"
    /\ out[1].ref_allele \in Alleles
    /\ RowSnp(out[1], out[1].ref_allele) = "SYN"
    /\ \A a \in Alleles \ {out[1].ref_allele} : RowSnp(out[1], a) = "NS"

Nucleotides == {"A", "C", "G", "T", "N"}

\* C7 (SpecCodon): invalid nucleotides are fatal.  No site that annotate_site
\* placed inside a gene and whose extracted reference codon holds a character
\* outside {A,C,G,T,N} gets a row: every written in-gene row has a reference
\* codon over {A,C,G,T,N}.
InvalidIsFatal ==
    \A k \in 1..Len(out) :
        log[k].in_gene =>
            \A j \in 1..Len(log[k].ref_codon) : log[k].ref_codon[j] \in Nucleotides

\* Complement of a codon, letter by letter.
Complement(c) == [k \in 1..Len(c) |-> rev_comp_d[c[k]]]

\* The codons the two sites of a strand run got, once both are annotated.
BothInGene == Len(log) = 2 /\ log[1].in_gene /\ log[2].in_gene

\* C8 as stated (SpecStrand): the codon fetched at p on the '+' gene and the
\* codon fetched at the mirrored position on the '-' gene are complementary
\* (letter by letter, or as reverse complements).
StrandComplementary ==
    pc = "done" =>
        /\ BothInGene
        /\ \/ log[2].ref_codon = Complement(log[1].ref_codon)
           \/ log[2].ref_codon = rev_comp(log[1].ref_codon).seq

\* C8 as amended (SpecStrand): the codon fetched at p on the '+' gene and the
\* codon fetched at the mirrored position on the '-' gene are the same codon,
\* at the same codon offset.
StrandIdentical ==
    pc = "done" =>
        /\ BothInGene
        /\ log[2].ref_codon = log[1].ref_codon
        /\ log[2].codon_pos = log[1].codon_pos
        /\ log[1].ref_codon = Slice(genome[1], 1 + 3 * ((int(sites[1].ref_pos) - 2) \div 3),
                                    4 + 3 * ((int(sites[1].ref_pos) - 2) \div 3))

\* Witness of C8: a finished strand run whose first site is in the second
\* codon at offset 1 and whose two codons differ from their complements.
StrandWitness ==
    /\ pc = "done"
    /\ BothInGene
    /\ int(sites[1].ref_pos) = 6
    /\ log[1].codon_pos = 1
    /\ log[2].codon_pos = 1
    /\ log[1].ref_codon = <<"T", "A", "G">>
    /\ log[2].ref_codon = <<"T", "A", "G">>

AccessionsSorted(xs, key(_)) ==
    \A k \in 1..Len(xs) - 1 : key(xs[k]) <= key(xs[k + 1])

SiteAccession(s) == s.ref_id

GeneAccession(g) == g.accession

\* The three preconditions of a run.
Preconditions ==
    /\ AccessionsSorted(sites, SiteAccession)
    /\ AccessionsSorted(genes, GeneAccession)
    /\ \A k \in 1..Len(genes) : (genes[k].end - genes[k].start + 1) % 3 = 0
    /\ \A k \in 1..Len(genes) : genes[k].accession \in DOMAIN genome

\* C6 (SpecPre): precondition violations are fatal.  A run whose inputs break
\* a precondition does not run to completion, and inputs that satisfy all
\* three are accepted by check_snps and check_genes.
PreconditionsEnforced ==
    /\ pc = "done" => Preconditions
    /\ (pc = "done" /\ Preconditions) => (check_snps(sites) /\ check_genes(genes, genome))

====
